---- MODULE Spec2Model ----
(***************************************************************************)
(* A model of src/main.py: the DatabaseManager store (three SQLite tables   *)
(* behind one threading.Lock, with validation and exception-to-result      *)
(* translation) and the driver main() that walks the sample data.          *)
(*                                                                         *)
(* Three specifications share the variables and the store's actions:       *)
(*   Spec       worker threads call insert_* / get_all_data concurrently   *)
(*              on one DatabaseManager; the engine raises constraint       *)
(*              violations only;                                           *)
(*   SpecFault  the same, and the engine may also raise an                 *)
(*              sqlite3.OperationalError at connect or at execute;         *)
(*   SpecMain   the program main(), run up to MaxRuns times over the same  *)
(*              database files.                                            *)
(***************************************************************************)
EXTENDS Integers, Sequences, FiniteSets, TLC

(* ---------------------------------------------------------------- bounds *)

\* Ids the worker threads draw records from: 1..MaxId.
MaxId == 2
\* Runs of main() over the same database files.
MaxRuns == 2
\* Engine faults (OperationalError) injected in one behaviour of SpecFault.
MaxFaults == 1
\* insert_* calls the worker threads make in one behaviour of Spec, SpecFault.
MaxCalls == 2

(* ------------------------------------------------------------ characters *)

\* Strings that the code inspects character by character (the email) are
\* sequences of one-character strings.
Lower ==
    {"a","b","c","d","e","f","g","h","i","j","k","l","m",
     "n","o","p","q","r","s","t","u","v","w","x","y","z"}

Upper ==
    {"A","B","C","D","E","F","G","H","I","J","K","L","M",
     "N","O","P","Q","R","S","T","U","V","W","X","Y","Z"}

Digit == {"0","1","2","3","4","5","6","7","8","9"}

Letter == Lower \cup Upper

\* [a-zA-Z0-9._%+-]
LocalChars == Letter \cup Digit \cup {".", "_", "%", "+", "-"}

\* [a-zA-Z0-9.-]
DomainChars == Letter \cup Digit \cup {".", "-"}

\* [a-zA-Z]{2,}$ on e[from..]: at least two letters up to the end of the
\* string, where $ also matches just before one trailing newline.
TldMatches(e, from) ==
    LET n == Len(e)
        letters(to) == /\ to - from + 1 >= 2
                       /\ \A k \in from..to : e[k] \in Letter
    IN \/ letters(n)
       \/ /\ n >= 1
          /\ e[n] = "\n"
          /\ letters(n - 1)

\* re.match(r'^[a-zA-Z0-9._%+-]+@[a-zA-Z0-9.-]+\.[a-zA-Z]{2,}$', e)
EmailPatternMatches(e) ==
    \E i \in 1..Len(e) :
        /\ e[i] = "@"
        /\ i >= 2
        /\ \A k \in 1..(i - 1) : e[k] \in LocalChars
        /\ \E j \in (i + 2)..Len(e) :
               /\ e[j] = "."
               /\ \A k \in (i + 1)..(j - 1) : e[k] \in DomainChars
               /\ TldMatches(e, j + 1)

(* -------------------------------------------------------------- records *)

User(id, name, email) == [id |-> id, name |-> name, email |-> email]

Product(id, name, price) == [id |-> id, name |-> name, price |-> price]

Order(id, user_id, product_id, quantity) ==
    [id |-> id, user_id |-> user_id, product_id |-> product_id,
     quantity |-> quantity]

\* Optional[str]: None, or the message.
None == "None"

(* ----------------------------------------------------------- validation *)

validate_user(user) ==
    IF user.name = "" THEN "Invalid name"
    ELSE IF user.email = <<>> THEN "Invalid email"
    ELSE IF ~EmailPatternMatches(user.email) THEN "Invalid email format"
    ELSE None

validate_product(product) ==
    IF product.name = "" THEN "Invalid product name"
    ELSE IF product.price < 0 THEN "Invalid price - must be non-negative"
    ELSE None

\* validate_order without the check of user_id and product_id.
validate_order_quantity_only(order) ==
    IF order.quantity < 0 THEN "Invalid quantity - must be non-negative"
    ELSE None

validate_order(order) ==
    IF order.quantity < 0 THEN "Invalid quantity - must be non-negative"
    ELSE IF order.user_id < 1 \/ order.product_id < 1
         THEN "Invalid user_id or product_id"
    ELSE None

validate(kind, rec) ==
    CASE kind = "users" -> validate_user(rec)
      [] kind = "products" -> validate_product(rec)
      [] kind = "orders" -> validate_order(rec)

(* ---------------------------------------------------------------- state *)

\* The entity kinds; kind k lives in table k of database file k.db.
Kinds == {"users", "products", "orders"}

Workers == {"w1", "w2"}

Threads == Workers \cup {"main"}

\* The value of lock when no thread holds it.
Free == "free"

VARIABLES
    schema,     \* schema[k]: the tables of database file k.db, in creation order
    users,      \* the committed rows of table users
    products,   \* the committed rows of table products
    orders,     \* the committed rows of table orders
    lock,       \* self.lock: the thread holding it, or Free
    th,         \* th[t]: where thread t is inside insert_* / get_all_data
    faults,     \* OperationalErrors the engine has raised so far
    calls,      \* insert_* calls made so far by this process
    mainpc,     \* where main() is ("off": no driver, the workers call the store)
    idx,        \* main(): index of the next record of the current sample list
    run,        \* how many times main() has been started on these files
    results,    \* main(): user_results, product_results, order_results
    reports     \* main(): what has been printed, <<>> before the reports

vars == <<schema, users, products, orders, lock, th, faults, calls,
          mainpc, idx, run, results, reports>>

storevars == <<schema, users, products, orders, lock, th, faults, calls>>

mainvars == <<mainpc, idx, run, results, reports>>

NoRec == [id |-> 0]

NoRes == [ok |-> FALSE, msg |-> <<>>]

NoData == [users |-> <<>>, products |-> <<>>, orders |-> <<>>]

\* A thread outside every store method.
Idle == [pc |-> "idle", kind |-> "none", rec |-> NoRec, res |-> NoRes,
         data |-> NoData]

table(kind) ==
    CASE kind = "users" -> users
      [] kind = "products" -> products
      [] kind = "orders" -> orders

(* ---------------------------------------------------------------- schema *)

Range(s) == {s[i] : i \in 1..Len(s)}

\* CREATE TABLE name (...), without IF NOT EXISTS: an existing table raises.
CreateTable(tabs, name) ==
    IF name \in Range(tabs)
    THEN [tabs |-> tabs, error |-> "OperationalError"]
    ELSE [tabs |-> Append(tabs, name), error |-> None]

\* CREATE TABLE IF NOT EXISTS name (...), on a file whose tables are tabs:
\* the file's tables afterwards, and the exception raised (None: none).
CreateTableIfNotExists(tabs, name) ==
    IF name \in Range(tabs)
    THEN [tabs |-> tabs, error |-> None]
    ELSE [tabs |-> Append(tabs, name), error |-> None]

\* setup_databases: one CREATE TABLE IF NOT EXISTS per database file, users
\* then products then orders; an exception ends it where it is raised.
setup_databases(sch) ==
    LET u == CreateTableIfNotExists(sch["users"], "users")
        p == CreateTableIfNotExists(sch["products"], "products")
        o == CreateTableIfNotExists(sch["orders"], "orders")
    IN IF u.error # None
       THEN [schema |-> [sch EXCEPT !["users"] = u.tabs], error |-> u.error]
       ELSE IF p.error # None
       THEN [schema |-> [sch EXCEPT !["users"] = u.tabs, !["products"] = p.tabs],
             error |-> p.error]
       ELSE [schema |-> [users |-> u.tabs, products |-> p.tabs, orders |-> o.tabs],
             error |-> o.error]

(* ----------------------------------------------------------- constraints *)

\* id INTEGER, without PRIMARY KEY: any id may be inserted.
PrimaryKeyUnchecked(rows, row) == TRUE

\* id INTEGER PRIMARY KEY: no committed row has the new row's id.
PrimaryKeyFree(rows, row) == \A r \in rows : r.id # row.id

\* email TEXT NOT NULL, without UNIQUE: any email may be inserted.
EmailUnconstrained(rows, row) == TRUE

\* UNIQUE written on the name column instead of the email column.
NameFree(rows, row) == \A r \in rows : r.name # row.name

\* email TEXT UNIQUE: no committed row has the new row's email.
EmailFree(rows, row) == \A r \in rows : r.email # row.email

\* The constraints with foreign keys declared on orders.user_id and
\* orders.product_id (and enforced).
ConstraintFailedForeignKeys(kind, rows, row) ==
    IF ~PrimaryKeyFree(rows, row) THEN "UNIQUE constraint failed: " \o kind \o ".id"
    ELSE IF kind = "users" /\ ~EmailFree(rows, row)
         THEN "UNIQUE constraint failed: users.email"
    ELSE IF /\ kind = "orders"
            /\ \/ \A u \in users : u.id # row.user_id
               \/ \A p \in products : p.id # row.product_id
         THEN "FOREIGN KEY constraint failed"
    ELSE None

\* The constraint an INSERT of row into table kind violates (None: none).
\* SQLite checks the rowid before the unique index.
ConstraintFailed(kind, rows, row) ==
    IF ~PrimaryKeyFree(rows, row) THEN "UNIQUE constraint failed: " \o kind \o ".id"
    ELSE IF kind = "users" /\ ~EmailFree(rows, row)
         THEN "UNIQUE constraint failed: users.email"
    ELSE None

\* The INSERT on a connection whose transaction is never committed.
ExecuteInsertNoCommit(kind, rows, row) ==
    LET failed == ConstraintFailed(kind, rows, row)
    IN IF failed = None
       THEN [rows |-> rows, exc |-> None, text |-> ""]
       ELSE [rows |-> rows, exc |-> "IntegrityError", text |-> failed]

\* conn.execute('INSERT INTO kind ...') and the connection's commit or
\* rollback: the table's rows afterwards and the exception raised.
ExecuteInsert(kind, rows, row) ==
    LET failed == IF kind \in Range(schema[kind])
                  THEN ConstraintFailed(kind, rows, row)
                  ELSE "no such table: " \o kind
    IN IF failed = None
       THEN [rows |-> rows \cup {row}, exc |-> None, text |-> ""]
       ELSE [rows |-> rows,
             exc |-> IF kind \in Range(schema[kind])
                     THEN "IntegrityError" ELSE "OperationalError",
             text |-> failed]

\* insert_* with `except sqlite3.IntegrityError` as its only except clause.
HandleIntegrityErrorOnly(exc, text) ==
    IF exc = "IntegrityError"
    THEN [pc |-> "ret", res |-> [ok |-> FALSE, msg |-> <<"Database error: ", text>>]]
    ELSE [pc |-> "raised", res |-> [ok |-> FALSE, msg |-> <<>>]]

\* The except clauses of insert_*: what the method does with exception exc.
\* "ret": it returns res; "raised": the exception leaves the method.
HandleException(exc, text) ==
    IF exc = "IntegrityError"
    THEN [pc |-> "ret", res |-> [ok |-> FALSE, msg |-> <<"Database error: ", text>>]]
    ELSE IF exc \in {"OperationalError", "OverflowError"}
    THEN [pc |-> "ret", res |-> [ok |-> FALSE, msg |-> <<"Unexpected error: ", text>>]]
    ELSE [pc |-> "raised", res |-> NoRes]

Success == [ok |-> TRUE, msg |-> <<"Success">>]

\* insert_* without `with self.lock`.
LockAlwaysAvailable(t) == TRUE

\* `with self.lock`: the lock can be taken.
LockAvailable(t) == lock = Free

\* The lock's value when thread t leaves `with self.lock`.
LockReleased(t) == Free

\* cursor.fetchall() of SELECT * FROM a rowid table: the rows by ascending id.
RECURSIVE SelectAll(_)
SelectAll(rows) ==
    IF rows = {} THEN <<>>
    ELSE LET first == CHOOSE r \in rows : \A q \in rows : r.id <= q.id
         IN <<first>> \o SelectAll(rows \ {first})

(* -------------------------------------------------------- store actions *)

\* insert_user / insert_product / insert_order up to `try:`: validation, and
\* the early return of its message.
Call(t, kind, rec) ==
    /\ th[t].pc = "idle"
    /\ LET error == validate(kind, rec)
       IN th' = [th EXCEPT ![t] =
                    IF error # None
                    THEN [Idle EXCEPT !.pc = "ret", !.kind = kind, !.rec = rec,
                                      !.res = [ok |-> FALSE, msg |-> <<error>>]]
                    ELSE [Idle EXCEPT !.pc = "try", !.kind = kind, !.rec = rec]]
    /\ calls' = calls + 1
    /\ UNCHANGED <<schema, users, products, orders, lock, faults>>

\* `with self.lock, sqlite3.connect(...) as conn:` entered.
Acquire(t) ==
    /\ th[t].pc = "try"
    /\ LockAvailable(t)
    /\ lock' = t
    /\ th' = [th EXCEPT ![t].pc = "cs"]
    /\ UNCHANGED <<schema, users, products, orders, faults, calls>>

\* The body of the with statement and its exits: the INSERT, the commit or
\* rollback, the release of the lock, and the return or the except clause.
Execute(t) ==
    /\ th[t].pc = "cs"
    /\ LET kind == th[t].kind
           done == ExecuteInsert(kind, table(kind), th[t].rec)
           out == IF done.exc = None
                  THEN [pc |-> "ret", res |-> Success]
                  ELSE HandleException(done.exc, done.text)
       IN /\ users' = IF kind = "users" THEN done.rows ELSE users
          /\ products' = IF kind = "products" THEN done.rows ELSE products
          /\ orders' = IF kind = "orders" THEN done.rows ELSE orders
          /\ th' = [th EXCEPT ![t].pc = out.pc, ![t].res = out.res]
    /\ lock' = LockReleased(t)
    /\ UNCHANGED <<schema, faults, calls>>

\* sqlite3.connect raises OperationalError after the lock was taken: the lock
\* is released and `except Exception` returns the failure.
FaultConnect(t) ==
    /\ th[t].pc = "try"
    /\ LockAvailable(t)
    /\ faults < MaxFaults
    /\ faults' = faults + 1
    /\ LET out == HandleException("OperationalError", "unable to open database file")
       IN th' = [th EXCEPT ![t].pc = out.pc, ![t].res = out.res]
    /\ lock' = LockReleased(t)
    /\ UNCHANGED <<schema, users, products, orders, calls>>

\* conn.execute raises OperationalError: rollback, release, `except Exception`.
FaultExecute(t) ==
    /\ th[t].pc = "cs"
    /\ faults < MaxFaults
    /\ faults' = faults + 1
    /\ LET out == HandleException("OperationalError", "disk I/O error")
       IN th' = [th EXCEPT ![t].pc = out.pc, ![t].res = out.res]
    /\ lock' = LockReleased(t)
    /\ UNCHANGED <<schema, users, products, orders, calls>>

\* get_all_data, first connection: SELECT * FROM users.
GetUsers(t) ==
    /\ th[t].pc \in {"idle", "ret"}
    /\ th' = [th EXCEPT ![t].pc = "g1", ![t].data.users = SelectAll(users)]
    /\ UNCHANGED <<schema, users, products, orders, lock, faults, calls>>

\* get_all_data, second connection: SELECT * FROM products.
GetProducts(t) ==
    /\ th[t].pc = "g1"
    /\ th' = [th EXCEPT ![t].pc = "g2", ![t].data.products = SelectAll(products)]
    /\ UNCHANGED <<schema, users, products, orders, lock, faults, calls>>

\* get_all_data, third connection and the return: SELECT * FROM orders.
GetOrders(t) ==
    /\ th[t].pc = "g2"
    /\ th' = [th EXCEPT ![t].pc = "got", ![t].data.orders = SelectAll(orders)]
    /\ UNCHANGED <<schema, users, products, orders, lock, faults, calls>>

\* The caller takes what the method returned and is ready for another call.
Collect(t) ==
    /\ th[t].pc \in {"ret", "got"}
    /\ th' = [th EXCEPT ![t] = Idle]
    /\ UNCHANGED <<schema, users, products, orders, lock, faults, calls>>

(* ------------------------------------------------- the workers' harness *)

Ids == 1..MaxId

\* a@b.co, b@b.co; a@b (no top-level domain); a@b.co and a newline.
EmailA == <<"a", "@", "b", ".", "c", "o">>

EmailB == <<"b", "@", "b", ".", "c", "o">>

EmailNoTld == <<"a", "@", "b">>

UserInputs ==
    {User(i, "Alice", e) : i \in Ids, e \in {<<>>, EmailNoTld, EmailA, EmailB}}
    \cup {User(i, "", EmailA) : i \in Ids}

ProductInputs ==
    {Product(i, "Laptop", p) : i \in Ids, p \in {-50, 0, 1000}}
    \cup {Product(i, "", 1000) : i \in Ids}

OrderInputs ==
    {Order(i, 1, 11, q) : i \in Ids, q \in {-1, 0, 2}}
    \cup {Order(i, 0, 11, 2) : i \in Ids}
    \cup {Order(i, 1, 0, 2) : i \in Ids}

Inputs(kind) ==
    CASE kind = "users" -> UserInputs
      [] kind = "products" -> ProductInputs
      [] kind = "orders" -> OrderInputs

Init ==
    /\ schema = [k \in Kinds |-> <<k>>]
    /\ users = {}
    /\ products = {}
    /\ orders = {}
    /\ lock = Free
    /\ th = [t \in Threads |-> Idle]
    /\ faults = 0
    /\ calls = 0
    /\ mainpc = "off"
    /\ idx = 0
    /\ run = 0
    /\ results = NoData
    /\ reports = <<>>

WorkerCall(t) ==
    /\ calls < MaxCalls
    /\ \E kind \in Kinds : \E rec \in Inputs(kind) : Call(t, kind, rec)
    /\ UNCHANGED mainvars

WorkerAcquire(t) == Acquire(t) /\ UNCHANGED mainvars

WorkerExecute(t) == Execute(t) /\ UNCHANGED mainvars

\* A worker may read the store back once its insert has returned.
WorkerGetUsers(t) == th[t].pc = "ret" /\ GetUsers(t) /\ UNCHANGED mainvars

WorkerGetProducts(t) == GetProducts(t) /\ UNCHANGED mainvars

WorkerGetOrders(t) == GetOrders(t) /\ UNCHANGED mainvars

WorkerCollect(t) == Collect(t) /\ UNCHANGED mainvars

WorkerFaultConnect(t) == FaultConnect(t) /\ UNCHANGED mainvars

WorkerFaultExecute(t) == FaultExecute(t) /\ UNCHANGED mainvars

Next ==
    \E t \in Workers :
        \/ WorkerCall(t)
        \/ WorkerAcquire(t)
        \/ WorkerExecute(t)
        \/ WorkerGetUsers(t)
        \/ WorkerGetProducts(t)
        \/ WorkerGetOrders(t)
        \/ WorkerCollect(t)

Spec == Init /\ [][Next]_vars

NextFault ==
    \E t \in Workers :
        \/ WorkerCall(t)
        \/ WorkerAcquire(t)
        \/ WorkerExecute(t)
        \/ WorkerFaultConnect(t)
        \/ WorkerFaultExecute(t)
        \/ WorkerGetUsers(t)
        \/ WorkerGetProducts(t)
        \/ WorkerGetOrders(t)
        \/ WorkerCollect(t)

SpecFault == Init /\ [][NextFault]_vars

(* ----------------------------------------------------------- main() *)

ExampleCom == <<"@", "e", "x", "a", "m", "p", "l", "e", ".", "c", "o", "m">>

\* The sample users of main().
SampleUsers ==
    << User(1, "Alice", <<"a", "l", "i", "c", "e">> \o ExampleCom),
       User(2, "Bob", <<"b", "o", "b">> \o ExampleCom),
       User(3, "Charlie", <<"c", "h", "a", "r", "l", "i", "e">> \o ExampleCom),
       User(4, "David", <<"d", "a", "v", "i", "d">> \o ExampleCom),
       User(5, "Eve", <<"e", "v", "e">> \o ExampleCom),
       User(6, "Frank", <<"f", "r", "a", "n", "k">> \o ExampleCom),
       User(7, "Grace", <<"g", "r", "a", "c", "e">> \o ExampleCom),
       User(8, "Alice", <<"a", "l", "i", "c", "e">> \o ExampleCom),
       User(9, "Henry", <<"h", "e", "n", "r", "y">> \o ExampleCom),
       User(10, "Jane", <<"j", "a", "n", "e">> \o ExampleCom) >>

\* The sample products of main(); prices in whole currency units.
SampleProducts ==
    << Product(1, "Laptop", 1000),
       Product(2, "Smartphone", 700),
       Product(3, "Headphones", 150),
       Product(4, "Monitor", 300),
       Product(5, "Keyboard", 50),
       Product(6, "Mouse", 30),
       Product(7, "Laptop", 1000),
       Product(8, "Smartwatch", 250),
       Product(9, "Gaming Chair", 500),
       Product(10, "Earbuds", -50) >>

\* The sample orders of main().
SampleOrders ==
    << Order(1, 1, 1, 2),
       Order(2, 2, 2, 1),
       Order(3, 3, 3, 5),
       Order(4, 4, 4, 1),
       Order(5, 5, 5, 3),
       Order(6, 6, 6, 4),
       Order(7, 7, 7, 2),
       Order(8, 8, 8, 0),
       Order(9, 9, 1, -1),
       Order(10, 10, 11, 2) >>

Sample(kind) ==
    CASE kind = "users" -> SampleUsers
      [] kind = "products" -> SampleProducts
      [] kind = "orders" -> SampleOrders

\* main() with the loop over orders left out.
AfterLoopSkipsOrders(kind) ==
    CASE kind = "users" -> "products"
      [] kind = "products" -> "join"
      [] kind = "orders" -> "join"

\* The loop that follows the loop over kind: users, products, orders, and
\* then the end of the `with ThreadPoolExecutor` block.
AfterLoop(kind) ==
    CASE kind = "users" -> "products"
      [] kind = "products" -> "orders"
      [] kind = "orders" -> "join"

\* The process starts in a directory without database files.
InitMain ==
    /\ schema = [k \in Kinds |-> <<>>]
    /\ users = {}
    /\ products = {}
    /\ orders = {}
    /\ lock = Free
    /\ th = [t \in Threads |-> Idle]
    /\ faults = 0
    /\ calls = 0
    /\ mainpc = "construct"
    /\ idx = 0
    /\ run = 1
    /\ results = NoData
    /\ reports = <<>>

\* db_manager = DatabaseManager(): setup_databases and a new lock; then the
\* sample data and the empty result lists. A setup exception ends the run.
MainConstruct ==
    /\ mainpc = "construct"
    /\ LET made == setup_databases(schema)
       IN /\ schema' = made.schema
          /\ mainpc' = IF made.error = None THEN "users" ELSE "crashed"
    /\ lock' = Free
    /\ idx' = 1
    /\ results' = NoData
    /\ reports' = <<>>
    /\ calls' = 0
    /\ UNCHANGED <<users, products, orders, th, faults, run>>

\* for record in <list>: db_manager.insert_<kind>(record), up to its `try:`.
MainInsert ==
    /\ mainpc \in Kinds
    /\ idx <= Len(Sample(mainpc))
    /\ Call("main", mainpc, Sample(mainpc)[idx])
    /\ UNCHANGED <<mainpc, idx, run, results, reports>>

\* The call entering its with statement.
MainAcquire ==
    /\ mainpc \in Kinds
    /\ Acquire("main")
    /\ UNCHANGED <<mainpc, idx, run, results, reports>>

\* The call's INSERT and its return.
MainExecute ==
    /\ mainpc \in Kinds
    /\ Execute("main")
    /\ UNCHANGED <<mainpc, idx, run, results, reports>>

\* <kind>_results.append({'id', 'success', 'message'}) and the loop's next
\* turn; an exception that left insert_* ends the run.
MainAppend ==
    /\ mainpc \in Kinds
    /\ th["main"].pc \in {"ret", "raised"}
    /\ IF th["main"].pc = "raised"
       THEN /\ mainpc' = "crashed"
            /\ UNCHANGED <<th, idx, results>>
       ELSE /\ results' = [results EXCEPT ![mainpc] =
                Append(@, [id |-> th["main"].rec.id,
                           success |-> th["main"].res.ok,
                           message |-> th["main"].res.msg])]
            /\ th' = [th EXCEPT !["main"] = Idle]
            /\ idx' = IF idx = Len(Sample(mainpc)) THEN 1 ELSE idx + 1
            /\ mainpc' = IF idx = Len(Sample(mainpc)) THEN AfterLoop(mainpc)
                         ELSE mainpc
    /\ UNCHANGED <<schema, users, products, orders, lock, faults, calls, run,
                   reports>>

\* The end of the `with ThreadPoolExecutor` block: shutdown(wait=True) of an
\* executor no task was submitted to.
MainJoin ==
    /\ mainpc = "join"
    /\ mainpc' = "fetch"
    /\ UNCHANGED <<storevars, idx, run, results, reports>>

\* db_manager.get_all_data(), one SELECT at a time.
MainFetch ==
    /\ mainpc = "fetch"
    /\ \/ GetUsers("main")
       \/ GetProducts("main")
       \/ GetOrders("main")
    /\ UNCHANGED <<mainpc, idx, run, results, reports>>

\* The six printed tables: the three result lists, then the three tables
\* get_all_data returned.
MainReport ==
    /\ mainpc = "fetch"
    /\ th["main"].pc = "got"
    /\ reports' = << results["users"], results["products"], results["orders"],
                     th["main"].data.users, th["main"].data.products,
                     th["main"].data.orders >>
    /\ mainpc' = "done"
    /\ UNCHANGED <<storevars, idx, run, results>>

\* The program is started again on the same database files.
MainRestart ==
    /\ mainpc = "done"
    /\ run < MaxRuns
    /\ run' = run + 1
    /\ mainpc' = "construct"
    /\ th' = [th EXCEPT !["main"] = Idle]
    /\ idx' = 0
    /\ results' = NoData
    /\ reports' = <<>>
    /\ UNCHANGED <<schema, users, products, orders, lock, faults, calls>>

NextMain ==
    \/ MainConstruct
    \/ MainInsert
    \/ MainAcquire
    \/ MainExecute
    \/ MainAppend
    \/ MainJoin
    \/ MainFetch
    \/ MainReport
    \/ MainRestart

SpecMain == InitMain /\ [][NextMain]_vars

(* ------------------------------------------------------------ properties *)

\* The positions of a thread whose insert_* call has returned its result.
Returned == {"ret", "g1", "g2", "got"}

Rows == <<users, products, orders>>

\* C1, as claimed: whenever a worker has called get_all_data after its
\* insert_* of a record that passes validation, the rows get_all_data
\* returned for the record's kind contain the record.
C1_Original ==
    \A t \in Workers :
        (th[t].pc = "got" /\ validate(th[t].kind, th[t].rec) = None)
            => th[t].rec \in Range(th[t].data[th[t].kind])

\* C1, amended: a record that passes validation is refused only when its id
\* or (users) its email is stored, and whenever insert_* returned success the
\* rows get_all_data then returns for that kind contain the record, field by
\* field.
C1_InsertedRowIsFetched ==
    \A t \in Workers :
        (th[t].pc \in Returned /\ validate(th[t].kind, th[t].rec) = None)
            => /\ ~th[t].res.ok =>
                    \E r \in table(th[t].kind) :
                        \/ r.id = th[t].rec.id
                        \/ th[t].kind = "users" /\ r.email = th[t].rec.email
               /\ (th[t].res.ok /\ th[t].pc = "got") =>
                    th[t].rec \in Range(th[t].data[th[t].kind])

\* A worker's successful insert, read back among two rows of its kind.
C1_Witness ==
    \E t \in Workers :
        /\ th[t].pc = "got"
        /\ th[t].res.ok
        /\ Len(th[t].data[th[t].kind]) = 2
        /\ th[t].rec \in Range(th[t].data[th[t].kind])

\* The step in which worker t's insert_* call returns.
InsertReturns(t) == th[t].pc \in {"idle", "try", "cs"} /\ th'[t].pc = "ret"

\* The id of the record of the call that returns is stored in its table.
IdStored(t) == \E r \in table(th'[t].kind) : r.id = th'[t].rec.id

\* What C2 says of a returning call: a failure of the integrity-error class,
\* and no table changed.
RejectedAsDuplicate(t) ==
    /\ ~th'[t].res.ok
    /\ th'[t].res.msg[1] = "Database error: "
    /\ UNCHANGED Rows

\* C2, as claimed: every insert_* call of a record whose id is stored in its
\* kind's table returns (False, "Database error: ...") and changes no row.
C2_Original ==
    [][\A t \in Workers :
          (InsertReturns(t) /\ IdStored(t)) => RejectedAsDuplicate(t)]_vars

\* C2, amended: every insert_* call of a record that passes validation and
\* whose id is stored in its kind's table returns (False, "Database error:
\* UNIQUE constraint failed: <kind>.id") and changes no row.
C2_DuplicateIdRejected ==
    [][\A t \in Workers :
          (/\ InsertReturns(t)
           /\ IdStored(t)
           /\ validate(th'[t].kind, th'[t].rec) = None)
              => /\ RejectedAsDuplicate(t)
                 /\ th'[t].res.msg[2] =
                        "UNIQUE constraint failed: " \o th'[t].kind \o ".id"]_vars

\* A product refused as a duplicate while a different row keeps its id.
C2_Witness ==
    \E t \in Workers :
        /\ th[t].pc = "ret"
        /\ th[t].res = [ok |-> FALSE,
                        msg |-> <<"Database error: ",
                                  "UNIQUE constraint failed: products.id">>]
        /\ \E r \in products : r.id = th[t].rec.id /\ r # th[t].rec
        /\ Cardinality(products) = 1

\* The records C3 names as failing validation.
NamedInvalid(kind, rec) ==
    CASE kind = "users" ->
             \/ rec.name = ""
             \/ rec.email = <<>>
             \/ ~EmailPatternMatches(rec.email)
      [] kind = "products" -> rec.name = "" \/ rec.price < 0
      [] kind = "orders" ->
             rec.quantity < 0 \/ rec.user_id < 1 \/ rec.product_id < 1

ValidationMessages ==
    {"Invalid name", "Invalid email", "Invalid email format",
     "Invalid product name", "Invalid price - must be non-negative",
     "Invalid quantity - must be non-negative", "Invalid user_id or product_id"}

\* C3: an insert_* call of a record that fails validation returns at once
\* (False, a validation message), never reaching the lock or the INSERT, and
\* changes no table.
C3_ValidationShortCircuits ==
    [][\A t \in Workers :
          (/\ th[t].pc = "idle"
           /\ th'[t].pc # "idle"
           /\ NamedInvalid(th'[t].kind, th'[t].rec))
              => /\ th'[t].pc = "ret"
                 /\ ~th'[t].res.ok
                 /\ Len(th'[t].res.msg) = 1
                 /\ th'[t].res.msg[1] \in ValidationMessages
                 /\ UNCHANGED <<Rows, lock>>]_vars

\* An order with user_id 0 and a fresh id, refused by validation.
C3_Witness ==
    \E t \in Workers :
        /\ th[t].pc = "ret"
        /\ th[t].kind = "orders"
        /\ th[t].rec.user_id < 1
        /\ th[t].rec.quantity >= 0
        /\ th[t].res = [ok |-> FALSE, msg |-> <<"Invalid user_id or product_id">>]
        /\ orders = {}

\* The first run of main() has finished its loop over the sample users.
UsersLoopDone ==
    run = 1 /\ mainpc \in {"products", "orders", "join", "fetch", "done"}

\* C4, as claimed: in a run of main() from empty tables the inserts of
\* User(1, "Alice", alice@example.com) and User(8, "Alice", alice@example.com)
\* both succeed and both rows are stored.
C4_Original ==
    UsersLoopDone =>
        /\ results["users"][1].success
        /\ results["users"][8].success
        /\ {SampleUsers[1], SampleUsers[8]} \subseteq users

\* C4, amended: the first of the two succeeds and is stored, the second
\* returns (False, "Database error: UNIQUE constraint failed: users.email")
\* and is not stored; no two rows of users ever share an email.
C4_EmailUniquenessEnforced ==
    /\ UsersLoopDone =>
          /\ results["users"][1] =
                 [id |-> 1, success |-> TRUE, message |-> <<"Success">>]
          /\ results["users"][8] =
                 [id |-> 8, success |-> FALSE,
                  message |-> <<"Database error: ",
                                "UNIQUE constraint failed: users.email">>]
          /\ SampleUsers[1] \in users
          /\ SampleUsers[8] \notin users
          /\ \A r \in users : r.email = SampleUsers[8].email => r.id = 1
    /\ \A r1, r2 \in users : r1.email = r2.email => r1 = r2

\* The first run of main() is over, with nine of the ten users stored.
C4_Witness ==
    /\ UsersLoopDone
    /\ mainpc = "done"
    /\ Len(results["users"]) = 10
    /\ Cardinality(users) = 9

\* Each worker has made one insert_* call, of kind k and of a record that
\* passes validation, the two are the only calls made (the tables were empty)
\* and both have returned.
BothReturned(k) ==
    /\ calls = Cardinality(Workers)
    /\ \A t \in Workers :
          /\ th[t].pc \in Returned
          /\ th[t].kind = k
          /\ validate(k, th[t].rec) = None

DistinctIds ==
    \A t, u \in Workers : t # u => th[t].rec.id # th[u].rec.id

DistinctEmails ==
    \A t, u \in Workers : t # u => th[t].rec.email # th[u].rec.email

\* C5, as claimed: records of one kind with distinct ids that pass validation,
\* inserted by concurrent threads into the empty table, are exactly the
\* table's rows once the calls have returned, in every interleaving.
C5_Original ==
    \A k \in Kinds :
        (BothReturned(k) /\ DistinctIds)
            => table(k) = {th[t].rec : t \in Workers}

\* C5, amended: the same for records that also, for users, have distinct
\* emails; and every one of the calls returns success.
C5_DistinctRecordsAllStored ==
    \A k \in Kinds :
        (BothReturned(k) /\ DistinctIds /\ (k = "users" => DistinctEmails))
            => /\ table(k) = {th[t].rec : t \in Workers}
               /\ \A t \in Workers : th[t].res = Success

\* Two users with distinct ids and emails, inserted by the two workers.
C5_Witness ==
    /\ BothReturned("users")
    /\ DistinctIds
    /\ DistinctEmails
    /\ Cardinality(users) = 2

NamedValidOrder(order) ==
    order.quantity >= 0 /\ order.user_id >= 1 /\ order.product_id >= 1

\* C7: insert_order of such an order passes validation whatever the tables
\* hold, and when its id is not stored its INSERT succeeds and stores the
\* row, whatever users and products hold.
C7_NoReferentialIntegrity ==
    [][\A t \in Workers :
          /\ (/\ th[t].pc = "idle"
              /\ th'[t].pc # "idle"
              /\ th'[t].kind = "orders"
              /\ NamedValidOrder(th'[t].rec))
                 => th'[t].pc = "try"
          /\ (/\ th[t].pc = "cs"
              /\ th'[t].pc # "cs"
              /\ th[t].kind = "orders"
              /\ NamedValidOrder(th[t].rec)
              /\ \A r \in orders : r.id # th[t].rec.id)
                 => /\ th'[t].pc = "ret"
                    /\ th'[t].res = Success
                    /\ orders' = orders \cup {th[t].rec}]_vars

\* An order for product 11 is stored with no product and no user stored.
C7_Witness ==
    \E t \in Workers :
        /\ th[t].pc = "ret"
        /\ th[t].kind = "orders"
        /\ th[t].res = Success
        /\ th[t].rec.product_id = 11
        /\ th[t].rec \in orders
        /\ products = {}
        /\ users = {}

\* main() is fetching the contents, or has fetched or reported them.
Reporting ==
    \/ mainpc \in {"fetch", "done"}
    \/ th["main"].pc \in {"g1", "g2", "got"}
    \/ reports # <<>>

SampleSize == Len(SampleUsers) + Len(SampleProducts) + Len(SampleOrders)

\* C8: when main() fetches the contents or reports, every insert_* call of
\* the run is over, every sample record has been attempted exactly once and
\* has exactly one outcome record, in the order of the sample; the reports
\* are printed only after get_all_data has returned.
C8_ReportsAfterAllInserts ==
    /\ Reporting =>
          /\ calls = SampleSize
          /\ lock = Free
          /\ th["main"].pc \notin {"try", "cs", "ret", "raised"}
          /\ \A k \in Kinds :
                /\ Len(results[k]) = Len(Sample(k))
                /\ \A i \in 1..Len(Sample(k)) :
                      results[k][i].id = Sample(k)[i].id
    /\ reports # <<>> =>
          /\ th["main"].pc = "got"
          /\ reports = << results["users"], results["products"],
                          results["orders"], SelectAll(users),
                          SelectAll(products), SelectAll(orders) >>

\* A run of main() has printed its reports.
C8_Witness ==
    /\ mainpc = "done"
    /\ reports # <<>>
    /\ Len(reports[3]) = Len(SampleOrders)
    /\ Len(reports[6]) = 9

\* C9: setup_databases raises nothing and leaves each database file with its
\* one table, and it changes no row; run on files that have their tables (a
\* second DatabaseManager, a second run of main()) it changes nothing at all.
C9_SetupIdempotent ==
    [][mainpc = "construct" =>
          /\ mainpc' = "users"
          /\ \A k \in Kinds : schema'[k] = <<k>>
          /\ UNCHANGED Rows
          /\ run >= 2 => UNCHANGED schema]_vars

\* The second run of main() has constructed its DatabaseManager over the
\* tables the first run filled.
C9_Witness ==
    /\ run = 2
    /\ mainpc = "users"
    /\ idx = 1
    /\ Cardinality(users) = 9
    /\ Cardinality(products) = 9
    /\ Cardinality(orders) = 9

\* C10: the lock is held by exactly the thread inside the with statement of
\* an insert_*, of whatever kind, and by at most one; a thread that is
\* validating, has returned (by either except clause or normally) or runs
\* get_all_data does not hold it.
C10_SingleLockSerializesWrites ==
    /\ lock \in Workers \cup {Free}
    /\ \A t \in Threads : (lock = t) <=> (th[t].pc = "cs")
    /\ Cardinality({t \in Threads : th[t].pc = "cs"}) <= 1

\* A worker inside the INSERT of a user keeps the lock from a worker that
\* brings a product.
C10_Witness ==
    \E t, u \in Workers :
        /\ th[t].pc = "cs"
        /\ th[t].kind = "users"
        /\ th[u].pc = "try"
        /\ th[u].kind = "products"
        /\ lock = t

====
